---- MODULE Spec2Model ----
(***************************************************************************)
(* Model of opentargets/conn.py: the parameter validator of Connection,    *)
(* its get/post dispatch, the parser Response, and the result iteration    *)
(* engine IterableResult, run against a paginating REST server.            *)
(*                                                                         *)
(* Python values are records [k |-> kind, v |-> payload]: the kind is the  *)
(* Python type (str, bool, int, float, list, none) or "absent" for a key   *)
(* that is not in a dict, or "tok" for an opaque continuation token.       *)
(* Records of the data set are the integers 1..N, in server order.         *)
(***************************************************************************)
EXTENDS Integers, Sequences, FiniteSets, TLC

\* Largest data set (and largest total a server reports).
MaxTotal == 3
\* Largest page a server returns in one response.
MaxPage == 2
\* The bulk page size the engine asks for (conn.py lines 423 and 472).
BulkSize == 1000

Val(k, v) == [k |-> k, v |-> v]
Absent == Val("absent", 0)
NoneV == Val("none", 0)
VStr(n) == Val("str", n)
VBool(n) == Val("bool", n)
VInt(n) == Val("int", n)
VFloat(n) == Val("float", n)
VList(n) == Val("list", n)
VTok(n) == Val("tok", n)

\* Python truthiness of a stored cursor: None (also a JSON null) is falsy,
\* a token is truthy.
Truthy(x) == x.k \notin {"none", "absent"}

Min(a, b) == IF a < b THEN a ELSE b

----------------------------------------------------------------------------
(* Connection.validate_parameter and the schema it reads.                  *)

Endpoints == {"/search", "/platform/search", "/unknown"}
Methods == {"get", "post"}
ParamNames == {"target", "direct", "size", "fields", "extra"}

\* endpoint_validation_data, as _get_remote_api_specs builds it: a path and
\* its /platform alias share the parameters of each method.
DeclaredParams(endpoint, method) ==
    IF endpoint \in {"/search", "/platform/search"}
    THEN IF method = "get"
         THEN {"target", "direct", "size", "fields"}
         ELSE {"target", "size"}
    ELSE {}

DeclaredType(endpoint, method, name) ==
    CASE name = "target" -> "string"
      [] name = "direct" -> "boolean"
      [] name = "size" -> "number"
      [] OTHER -> "array"

\* Whether endpoint_validation_data[endpoint][method] exists.
HasEndpoint(endpoint, method) == endpoint \in {"/search", "/platform/search"}

\* isinstance(value, str), isinstance(value, bool), isinstance(value, (int, float)):
\* bool is a subclass of int.
IsStr(value) == value.k = "str"
IsBool(value) == value.k = "bool"
IsNumber(value) == value.k \in {"int", "float", "bool"}

\* A validator that lets an undeclared parameter pass.
validate_parameterPermissive(endpoint, filter_type, value, method) ==
    IF ~HasEndpoint(endpoint, method) THEN "KeyError"
    ELSE IF filter_type \in DeclaredParams(endpoint, method)
         THEN LET t == DeclaredType(endpoint, method, filter_type) IN
              IF \/ t = "string" /\ IsStr(value)
                 \/ t = "boolean" /\ IsBool(value)
                 \/ t = "number" /\ IsNumber(value)
              THEN "ok" ELSE "ValidationError"
         ELSE "ok"

\* The result of validate_parameter: "ok" (returns), "ValidationError" (the
\* AttributeError it raises) or "KeyError" (the schema lookup fails).
validate_parameter(endpoint, filter_type, value, method) ==
    IF ~HasEndpoint(endpoint, method) THEN "KeyError"
    ELSE IF /\ filter_type \in DeclaredParams(endpoint, method)
            /\ LET t == DeclaredType(endpoint, method, filter_type) IN
               \/ t = "string" /\ IsStr(value)
               \/ t = "boolean" /\ IsBool(value)
               \/ t = "number" /\ IsNumber(value)
         THEN "ok"
         ELSE "ValidationError"

----------------------------------------------------------------------------
(* Connection.get, Connection.post and Connection._make_request: what is   *)
(* handed to session.request. A dict is the sequence of its (name, value)  *)
(* items in insertion order; a list or tuple value carries its length.     *)

\* Longest list passed as a parameter value.
MaxSeq == 4
\* "if len(v)>3" (conn.py line 210).
PostThreshold == 3

VTuple(n) == Val("tuple", n)
Pair(nm, v) == [name |-> nm, value |-> v]

DispatchKeys == {"fields", "size", "target"}
\* The order sorted() gives to the keys.
KeyRank == [k \in DispatchKeys |->
               CASE k = "fields" -> 1 [] k = "size" -> 2 [] OTHER -> 3]
DispatchValues == {VInt(1), VTuple(MaxSeq)} \cup {VList(l) : l \in PostThreshold..MaxSeq}

\* The dicts a caller may pass: distinct keys, in any insertion order.
Dicts ==
    {d \in UNION {[1..len -> [name : DispatchKeys, value : DispatchValues]] :
                      len \in 0..Cardinality(DispatchKeys)} :
        \A i, j \in DOMAIN d : i # j => d[i].name # d[j].name}

Items(d) == {d[i] : i \in DOMAIN d}

\* sorted(params.items()): the keys of a dict are distinct, so the items
\* come out in the order of their keys.
RECURSIVE sorted(_)
sorted(d) ==
    IF d = <<>> THEN <<>>
    ELSE LET i == CHOOSE i \in DOMAIN d :
                      \A j \in DOMAIN d : KeyRank[d[i].name] <= KeyRank[d[j].name]
         IN <<d[i]>> \o sorted([j \in 1..(Len(d) - 1) |-> IF j < i THEN d[j] ELSE d[j + 1]])

\* A detector that already switches at the threshold length.
auto_detect_postInclusive(params) ==
    /\ params # <<>>
    /\ \E i \in DOMAIN params :
          /\ params[i].value.k \in {"list", "tuple"}
          /\ params[i].value.v >= PostThreshold

\* Connection._auto_detect_post
auto_detect_post(params) ==
    /\ params # <<>>
    /\ \E i \in DOMAIN params :
          /\ params[i].value.k \in {"list", "tuple"}
          /\ params[i].value.v > PostThreshold

\* Connection._make_request up to session.request: the query parameters are
\* sorted, the JSON body is passed on as the dict it is.
make_request(endpoint, params, data, method) ==
    [method |-> method, url |-> endpoint,
     params |-> IF params # <<>> THEN sorted(params) ELSE params,
     json |-> data]

\* Connection.post
post(endpoint, data) == make_request(endpoint, <<>>, data, "POST")

\* Connection.get
get(endpoint, params) ==
    IF auto_detect_post(params)
    THEN post(endpoint, params)
    ELSE make_request(endpoint, params, <<>>, "GET")

----------------------------------------------------------------------------
(* Response.__init__: a response body parsed into data and info. A JSON    *)
(* value that can stand under "data" is [k |-> kind, v |-> records]: a     *)
(* list of records, a single object (one record), a number, a string, or   *)
(* text that is not JSON.                                                  *)

JVal(k, v) == [k |-> k, v |-> v]
JAbsent == JVal("absent", <<>>)
JList(records) == JVal("list", records)
JObject(record) == JVal("object", <<record>>)
JNumber == JVal("number", <<>>)

\* A character of a text; a string or a text holds one.
Char == 0
JString == JVal("string", <<Char>>)
JText == JVal("text", <<Char>>)

\* The record that stands for the parsed object itself.
WholeObject == 0

\* The top-level fields of a body besides "data"; "took" is a field that
\* has nothing to do with pagination.
MetaKeys == {"total", "from", "next", "size", "took"}
InfoKeys == MetaKeys \cup {"from_", "next_"}
NoMeta == [k \in MetaKeys |-> Absent]
NoInfo == [k \in InfoKeys |-> Absent]

\* A body: shape "object" (a JSON object with the fields meta and, unless
\* absent, data), "value" (any other JSON value, held in data) or "text"
\* (response.json() raises ValueError).
Body(shape, d, meta) == [shape |-> shape, data |-> d, meta |-> meta]

Bodies ==
    {Body("object", d, [total |-> t, from |-> f, next |-> nx, size |-> sz, took |-> tk]) :
         d \in {JAbsent, JObject(1)} \cup {JList([i \in 1..len |-> i]) : len \in 0..MaxPage},
         t \in {Absent, VInt(1), VInt(MaxTotal)},
         f \in {Absent, VInt(0)},
         nx \in {Absent, NoneV, VTok(1)},
         sz \in {Absent, VInt(MaxPage)},
         tk \in {Absent, VInt(7)}}
    \cup {Body("value", d, NoMeta) : d \in {JList(<<1>>), JNumber, JString}}
    \cup {Body("text", JText, NoMeta)}

\* "parsed_response['from_'] = parsed_response['from']; del parsed_response['from']"
\* and the same for next, then addict.Dict(parsed_response).
Renamed(meta) ==
    [k \in InfoKeys |->
        CASE k = "from_" -> meta["from"]
          [] k = "next_" -> meta["next"]
          [] k \in {"from", "next"} -> Absent
          [] OTHER -> meta[k]]

\* Response.__init__: self.data and self.info. Without a data key the data
\* is a list holding the parsed object, and info is still built from the
\* fields of that object.
Response(body) ==
    IF body.shape = "object"
    THEN [data |-> IF body.data # JAbsent THEN body.data ELSE JList(<<WholeObject>>),
          info |-> Renamed(body.meta)]
    ELSE IF body.shape = "value"
    THEN [data |-> body.data, info |-> NoInfo]
    ELSE [data |-> JText, info |-> NoInfo]

----------------------------------------------------------------------------
(* The remote server behind Connection._make_request.                     *)

Keys == {"target", "size", "extra", "from", "next", "no_cache"}
NoParams == [k \in Keys |-> Absent]
Strategies == {"offset", "cursor", "erratic", "plain"}

\* Records s+1 .. s+len of a data set of n records.
Slice(n, s, len) ==
    IF s >= n THEN <<>> ELSE [i \in 1..Min(len, n - s) |-> s + i]

\* Where a paginating server starts the page a request asks for.
StartOf(srv, params) ==
    IF srv = "cursor" /\ params["next"].k = "tok" THEN params["next"].v
    ELSE IF params["from"].k = "int" THEN params["from"].v
    ELSE 0

\* A cursor-only server refuses a request that asks for an offset and
\* carries no token.
Rejects(srv, params) ==
    /\ srv = "cursor"
    /\ params["next"].k # "tok"
    /\ params["from"].k = "int" /\ params["from"].v > 0

\* What the engine takes from a Response: shape is the type of Response.data
\* ("list", "dict" or "str") and data its elements: the records of a list,
\* the keys of a dict, the characters of a str.
Envelope(data, total, hasNext, next, size) ==
    [status |-> "ok", data |-> data, shape |-> "list", total |-> total,
     hasNext |-> hasNext, next |-> next, size |-> size]
Failure(why) ==
    [status |-> why, data |-> <<>>, shape |-> "list", total |-> Absent,
     hasNext |-> FALSE, next |-> Absent, size |-> FALSE]

\* The type of Response.data.
ShapeOf(d) ==
    CASE d.k = "list" -> "list"
      [] d.k = "object" -> "dict"
      [] OTHER -> "str"

\* The Response built from a body, as the engine reads it: "'next_' in
\* response.info", "'size' in self.info", "self.info.total".
EnvelopeOf(r) ==
    [status |-> "ok", data |-> r.data.v, shape |-> ShapeOf(r.data),
     total |-> r.info["total"], hasNext |-> (r.info["next_"] # Absent),
     next |-> r.info["next_"], size |-> (r.info["size"] # Absent)]

\* The bodies of a server that does not paginate: a single object (with a
\* total among its fields, or none), an object under the data key, a JSON
\* string, and text that is not JSON.
PlainBodies ==
    {Body("object", JAbsent, NoMeta),
     Body("object", JAbsent, [NoMeta EXCEPT !["total"] = VInt(MaxTotal)]),
     Body("object", JObject(1), NoMeta),
     Body("value", JString, NoMeta),
     Body("text", JText, NoMeta)}

\* The data sets a server may hold for a query. An erratic server holds a
\* full one and answers with any part of it.
DatasetSizes(srv) ==
    IF srv = "erratic" THEN {MaxTotal} ELSE IF srv = "plain" THEN {0} ELSE 0..MaxTotal

\* The parsed responses (Response.data, Response.info) a server with
\* strategy srv and n records may give to a request. An offset server sends
\* no cursor, a cursor server sends the position of the page's last record
\* as the token, and an erratic server sends a page of any length (empty
\* too), any total or none on a first page, and no cursor or a token (or a
\* null one on a first page). A plain server sends one of its bodies,
\* parsed by Response.
Pages(srv, n, params, first) ==
    IF srv = "offset"
    THEN {Envelope(Slice(n, StartOf(srv, params), len), VInt(n), FALSE, Absent, TRUE) :
              len \in 1..MaxPage}
    ELSE IF srv = "cursor"
    THEN {LET page == Slice(n, StartOf(srv, params), len) IN
          Envelope(page, VInt(n), page # <<>>,
                   IF page = <<>> THEN Absent ELSE VTok(page[Len(page)]), TRUE) :
              len \in 1..MaxPage}
    ELSE IF srv = "plain"
    THEN {EnvelopeOf(Response(b)) : b \in PlainBodies}
    ELSE {Envelope(Slice(n, StartOf(srv, params), len), tot, next # Absent, next,
                   tot # Absent) :
              len \in 0..MaxPage,
              tot \in IF first THEN {Absent, VInt(1), VInt(MaxTotal)} ELSE {Absent},
              next \in IF first THEN {Absent, NoneV, VTok(1)} ELSE {Absent, VTok(1)}}

\* What a dispatch may come back with: a page, or a failure raised by
\* raise_for_status / the session.
Serve(srv, n, params, first) ==
    {Failure("down")} \cup
    IF Rejects(srv, params) THEN {Failure("rejected")} ELSE Pages(srv, n, params, first)

\* A first-page dispatch meets a server that holds some data set for the
\* query: the strategy, the size of the data set and the response.
FirstResponses(strategies, params) ==
    UNION {UNION {{[srv |-> s, n |-> m, resp |-> r] : r \in Pages(s, m, params, TRUE)} :
                      m \in DatasetSizes(s)} :
               s \in {t \in strategies : ~Rejects(t, params)}}
    \cup {[srv |-> s, n |-> 0, resp |-> Failure("rejected")] :
               s \in {t \in strategies : Rejects(t, params)}}
    \cup {[srv |-> "offset", n |-> 0, resp |-> Failure("down")]}

----------------------------------------------------------------------------
(* IterableResult: the engine's fields, and what a caller observes.       *)

VARIABLES
    method,             \* self.method
    bound,              \* __call__ has completed once: current, total, _data exist
    args,               \* self._args[0], the endpoint ("" before the first call)
    kwargs,             \* self._kwargs
    data,               \* self._data, the buffer
    shape,              \* the type of self._data: "list", "dict" or "str"
    search_after_last,  \* self._search_after_last, the cursor
    current,            \* self.current
    total,              \* self.total
    srv,                \* the strategy the server uses for the query being iterated
    n,                  \* the number of records matching that query
    yielded,            \* history: the records returned since the last restart
    firstPage,          \* history: the records of the first page of this iteration
    emptySeen,          \* history: some page received since the restart was empty
    firstTotal,         \* history: the total the first response of this iteration carried
    pageNext,           \* history: the next_ of the last page taken into the buffer, if any
    ownCursor,          \* history: a page of this iteration has set the cursor
    outcome,            \* history: the last operation and how it ended
    wire,               \* history: the dispatch the last operation made, if any
    index,              \* the __getitem__ call in progress, if any
    vcall,              \* history: the last direct validate_parameter call
    sent,               \* history: the last direct Connection.get / post call
    parsed              \* history: the last body given to Response and the result

iteration == <<method, bound, args, kwargs, data, shape, search_after_last, current, total, srv, n,
               yielded, firstPage, emptySeen, firstTotal, pageNext, ownCursor,
               outcome, wire, index>>
vars == <<iteration, vcall, sent, parsed>>

engine == <<bound, data, shape, search_after_last, current, total>>
history == <<yielded, firstPage, emptySeen, firstTotal, pageNext, ownCursor>>

Outcome(op, res) == [op |-> op, res |-> res]

\* kind: "first" (sent by __call__), "cont" (sent by __next__) or "none";
\* status, empty (no record in the page), next and total are the response's.
Wire(kind, resp) ==
    [kind |-> kind, status |-> resp.status, empty |-> (resp.data = <<>>),
     next |-> IF resp.hasNext THEN resp.next ELSE Absent, total |-> resp.total]

NoWire == [kind |-> "none", status |-> "ok", empty |-> TRUE, next |-> Absent,
           total |-> Absent]

\* No __getitem__ call is in progress. One in progress has on = TRUE, the
\* position k asked for and the value of current when it was asked (from).
Idle == [k |-> 0, from |-> 0, on |-> FALSE]

NoCall == [endpoint |-> "", method |-> "", name |-> "", value |-> Absent, res |-> ""]

NoParsed == [body |-> Body("", JAbsent, NoMeta), data |-> JAbsent, info |-> NoInfo]

NoSent == [via |-> "", endpoint |-> "", params |-> <<>>,
           request |-> make_request("", <<>>, <<>>, "")]

\* IterableResult.__init__: only the cursor is set.
Init ==
    /\ method = "get"
    /\ bound = FALSE
    /\ args = ""
    /\ kwargs = NoParams
    /\ data = <<>>
    /\ shape = "list"
    /\ search_after_last = NoneV
    /\ current = 0
    /\ total = 0
    /\ srv = "offset"
    /\ n = 0
    /\ yielded = <<>>
    /\ firstPage = <<>>
    /\ emptySeen = FALSE
    /\ firstTotal = Absent
    /\ pageNext = Absent
    /\ ownCursor = FALSE
    /\ outcome = Outcome("init", "ok")
    /\ wire = NoWire
    /\ index = Idle
    /\ vcall = NoCall
    /\ sent = NoSent
    /\ parsed = NoParsed

\* The values given to self.method: the two of HTTPMethods and one that is
\* neither.
EngineMethods == Methods \cup {"put"}

\* A _make_call that sends whatever the method is.
SupportedAny(m) == TRUE

\* _make_call knows what to do with the method.
Supported(m) == m \in Methods

\* A response that makes no difference between a failure and a page.
FailedNever(resp) == FALSE

\* response.raise_for_status() raises, or session.request does.
Failed(resp) == resp.status # "ok"

\* response.info.next_ where the response has one.
NextOf(resp) == IF resp.hasNext THEN resp.next ELSE Absent

\* "if 'next_' in response.info: self._search_after_last = response.info.next_"
CaptureCursor(cursor, resp) == IF resp.hasNext THEN resp.next ELSE cursor

\* A total taken from the length of the first page alone.
TotalOfFirstPage(resp) == Len(resp.data)

\* A total that is 0 when the response carries none.
TotalOfOrZero(resp) == IF resp.total.k = "int" THEN resp.total.v ELSE 0

\* "self.total = int(self.info.total)", or len(self._data) when that raises.
TotalOf(resp) == IF resp.total.k = "int" THEN resp.total.v ELSE Len(resp.data)

\* "if 'size' in self.info and 'size' not in self._kwargs: self._kwargs['size']=1000",
\* inside the try that int(self.info.total) may leave.
InjectSize(kw, resp) ==
    IF resp.total.k = "int" /\ resp.size /\ kw["size"] = Absent
    THEN [kw EXCEPT !["size"] = VInt(BulkSize)]
    ELSE kw

\* __call__ after self._args and self._kwargs are stored: one dispatch of the
\* stored parameters, then the iteration state is set from the response.
Call(op, endpoint, kw, strategies) ==
    IF ~Supported(method)
    THEN /\ args' = endpoint
         /\ kwargs' = kw
         /\ outcome' = Outcome(op, "UnsupportedMethod")
         /\ wire' = NoWire
         /\ UNCHANGED <<engine, srv, n, history>>
    ELSE
    \E f \in FirstResponses(strategies, kw) :
      LET resp == f.resp IN
        /\ args' = endpoint
        /\ wire' = Wire("first", resp)
        /\ IF Failed(resp)
           THEN /\ kwargs' = kw
                /\ outcome' = Outcome(op, "TransportError")
                /\ UNCHANGED <<engine, srv, n, history>>
           ELSE /\ data' = resp.data
                /\ shape' = resp.shape
                /\ search_after_last' = CaptureCursor(search_after_last, resp)
                /\ current' = 0
                /\ total' = TotalOf(resp)
                /\ kwargs' = InjectSize(kw, resp)
                /\ bound' = TRUE
                /\ srv' = f.srv
                /\ n' = f.n
                /\ yielded' = <<>>
                /\ firstPage' = resp.data
                /\ emptySeen' = (resp.data = <<>>)
                /\ firstTotal' = resp.total
                /\ pageNext' = NextOf(resp)
                /\ ownCursor' = resp.hasNext
                /\ outcome' = Outcome(op, "ok")

\* What a caller passes to __call__: an endpoint and no keyword; the
\* keywords come with filter().
InvokeParams == {NoParams}

\* IterableResult.__call__(endpoint, **params): the endpoint named decides
\* which strategy the server uses.
Invoke(endpoint, params) ==
    /\ Call("invoke", endpoint, params, Strategies)
    /\ UNCHANGED <<method, vcall, sent, parsed>>

\* What a caller passes to filter(): keywords in the order given. target is
\* declared a string and size a number; extra is not declared.
FilterCalls ==
    {<<>>,
     <<Pair("target", VStr(1))>>,
     <<Pair("size", VStr(1))>>,
     <<Pair("extra", VStr(1))>>,
     <<Pair("target", VStr(1)), Pair("size", VStr(1))>>,
     <<Pair("size", VStr(1)), Pair("target", VStr(1))>>,
     <<Pair("target", VStr(1)), Pair("extra", VStr(1))>>}

\* _validate_filter: validate_parameter with the default method.
validate_filter(endpoint, filter_type, value) ==
    validate_parameter(endpoint, filter_type, value, "get")

\* The loop of filter(): each keyword is validated, then stored, in turn; the
\* first keyword that fails ends the loop with the earlier ones stored.
RECURSIVE ApplyFilters(_, _, _)
ApplyFilters(endpoint, kw, pairs) ==
    IF pairs = <<>> THEN [kw |-> kw, res |-> "ok"]
    ELSE LET p == Head(pairs)
             r == validate_filter(endpoint, p.name, p.value)
         IN IF r # "ok" THEN [kw |-> kw, res |-> r]
            ELSE ApplyFilters(endpoint, [kw EXCEPT ![p.name] = p.value], Tail(pairs))

\* IterableResult.filter(**pairs): the endpoint, and with it the server's
\* strategy, stays.
Filter(pairs) ==
    /\ args # ""
    /\ UNCHANGED <<method, vcall, sent, parsed>>
    /\ IF pairs = <<>>
       THEN /\ outcome' = Outcome("filter", "ok")
            /\ wire' = NoWire
            /\ UNCHANGED <<args, kwargs, engine, srv, n, history>>
       ELSE LET a == ApplyFilters(args, kwargs, pairs) IN
            IF a.res # "ok"
            THEN /\ kwargs' = a.kw
                 /\ outcome' = Outcome("filter", a.res)
                 /\ wire' = NoWire
                 /\ UNCHANGED <<args, engine, srv, n, history>>
            ELSE Call("filter", args, a.kw, {srv})

\* A continuation that always asks by offset.
AdvanceParamsOffsetOnly(kw, cursor, cur) ==
    [kw EXCEPT !["from"] = VInt(cur), !["no_cache"] = VStr(2), !["size"] = VInt(BulkSize)]

\* The parameters of a continuation request: "from" 0 and the token when a
\* cursor is stored, "from" current otherwise; always no_cache and the bulk size.
AdvanceParams(kw, cursor, cur) ==
    LET k1 == IF Truthy(cursor)
              THEN [kw EXCEPT !["from"] = VInt(0), !["next"] = cursor]
              ELSE [kw EXCEPT !["from"] = VInt(cur)]
    IN [k1 EXCEPT !["no_cache"] = VStr(2), !["size"] = VInt(BulkSize)]

\* A test that lets iteration run one record past the total.
MoreRemainInclusive(cur, tot) == cur <= tot

\* "if self.current < self.total"
MoreRemain(cur, tot) == cur < tot

\* A refill that starts while one record is still buffered.
BufferLow(buf) == Len(buf) <= 1

\* "if not self._data"
BufferEmpty(buf) == buf = <<>>

\* A continuation that takes an empty page for a page of records.
EmptyPageIgnored(resp) == FALSE

\* "if not call_output.data: raise StopIteration"
EmptyPage(resp) == resp.data = <<>>

\* "self._data.pop(0)": what it raises, "" when it returns a record. A str
\* has no pop, a dict has no key 0, and an empty list has nothing to pop.
PopError(sh, buf) ==
    IF sh = "str" THEN "AttributeError"
    ELSE IF sh = "dict" THEN "KeyError"
    ELSE IF buf = <<>> THEN "IndexError"
    ELSE ""

\* IterableResult.__next__
NextRecord ==
    /\ bound
    /\ UNCHANGED <<method, bound, args, total, srv, n, firstPage, firstTotal,
                   vcall, sent, parsed>>
    /\ IF MoreRemain(current, total)
       THEN IF BufferEmpty(data)
            THEN LET kw == AdvanceParams(kwargs, search_after_last, current) IN
                 IF ~Supported(method)
                 THEN /\ kwargs' = kw
                      /\ outcome' = Outcome("next", "UnsupportedMethod")
                      /\ wire' = NoWire
                      /\ UNCHANGED <<data, shape, search_after_last, current, yielded,
                                     emptySeen, pageNext, ownCursor>>
                 ELSE
                 \E resp \in Serve(srv, n, kw, FALSE) :
                   /\ kwargs' = kw
                   /\ wire' = Wire("cont", resp)
                   /\ IF Failed(resp)
                      THEN /\ outcome' = Outcome("next", "TransportError")
                           /\ UNCHANGED <<data, shape, search_after_last, current,
                                          yielded, emptySeen, pageNext, ownCursor>>
                      ELSE IF EmptyPage(resp)
                      THEN /\ outcome' = Outcome("next", "StopIteration")
                           /\ emptySeen' = TRUE
                           /\ UNCHANGED <<pageNext, ownCursor>>
                           /\ UNCHANGED <<data, shape, search_after_last, current, yielded>>
                      ELSE /\ search_after_last' = CaptureCursor(search_after_last, resp)
                           /\ UNCHANGED emptySeen
                           /\ pageNext' = NextOf(resp)
                           /\ ownCursor' = (ownCursor \/ resp.hasNext)
                           /\ data' = IF PopError(resp.shape, resp.data) # ""
                                      THEN resp.data ELSE Tail(resp.data)
                           /\ shape' = resp.shape
                           /\ IF PopError(resp.shape, resp.data) # ""
                              THEN /\ outcome' = Outcome("next",
                                                         PopError(resp.shape, resp.data))
                                   /\ UNCHANGED <<current, yielded>>
                              ELSE /\ current' = current + 1
                                   /\ yielded' = Append(yielded, Head(resp.data))
                                   /\ outcome' = Outcome("next", "record")
            ELSE /\ wire' = NoWire
                 /\ UNCHANGED <<kwargs, shape, search_after_last, emptySeen, pageNext, ownCursor>>
                 /\ IF PopError(shape, data) # ""
                    THEN /\ outcome' = Outcome("next", PopError(shape, data))
                         /\ UNCHANGED <<data, current, yielded>>
                    ELSE /\ data' = Tail(data)
                         /\ current' = current + 1
                         /\ yielded' = Append(yielded, Head(data))
                         /\ outcome' = Outcome("next", "record")
       ELSE /\ outcome' = Outcome("next", "StopIteration")
            /\ wire' = NoWire
            /\ UNCHANGED <<kwargs, data, shape, search_after_last, current, yielded,
                           emptySeen, pageNext, ownCursor>>

\* IterableResult.__getitem__(k), k an integer: islice(self, k, None) is
\* created; nothing is consumed until next() drives it.
GetItem(k) ==
    /\ bound
    /\ index = Idle
    /\ index' = [k |-> k, from |-> current, on |-> TRUE]
    /\ outcome' = Outcome("getitem", "islice")
    /\ wire' = NoWire
    /\ UNCHANGED <<method, bound, args, kwargs, data, shape, search_after_last, current,
                   total, srv, n, history, vcall, sent, parsed>>

\* "engine.method = m": the method is a plain attribute.
SetMethod(m) ==
    /\ method # m
    /\ method' = m
    /\ outcome' = Outcome("method", "ok")
    /\ wire' = NoWire
    /\ UNCHANGED <<bound, args, kwargs, data, shape, search_after_last, current, total,
                   srv, n, history, vcall, sent, parsed>>

\* An islice that hands out the record before the one asked for.
ReachedEarly(cur, idx) == cur >= idx.from + idx.k

\* islice(self, k, None) hands out the record that follows k consumed ones.
Reached(cur, idx) == cur >= idx.from + idx.k + 1

\* next(islice(self, k, None), None): one call of __next__ by islice. It
\* goes on while records come and fewer than k + 1 have been consumed; the
\* record after k discarded ones is the item, StopIteration gives None, and
\* anything else raised leaves __getitem__.
Islice ==
    /\ index # Idle
    /\ NextRecord
    /\ index' = IF outcome'.res = "record" /\ ~Reached(current', index)
                THEN index ELSE Idle

\* An operation of the caller, between two __getitem__ calls.
Called(op) == index = Idle /\ op /\ UNCHANGED index

Next ==
    \/ \E params \in InvokeParams : Called(Invoke("/search", params))
    \/ \E pairs \in FilterCalls : Called(Filter(pairs))
    \/ Called(NextRecord)
    \/ \E m \in EngineMethods : Called(SetMethod(m))
    \/ \E k \in 0..MaxTotal : GetItem(k)
    \/ Islice

Spec == Init /\ [][Next]_vars

----------------------------------------------------------------------------
(* The validator on its own: validate_parameter called with every          *)
(* endpoint, method, parameter name and kind of value.                     *)

ValueKinds == {VStr(1), VBool(1), VInt(10), VFloat(1), VList(1), NoneV}

Validate(endpoint, m, name, value) ==
    /\ vcall' = [endpoint |-> endpoint, method |-> m, name |-> name,
                 value |-> value,
                 res |-> validate_parameter(endpoint, name, value, m)]
    /\ UNCHANGED <<iteration, sent, parsed>>

NextValidate ==
    \E endpoint \in Endpoints, m \in Methods, name \in ParamNames,
       value \in ValueKinds : Validate(endpoint, m, name, value)

SpecValidate == Init /\ [][NextValidate]_vars

----------------------------------------------------------------------------
(* The connection on its own: get and post called with every dict.         *)

Dispatch(via, endpoint, params) ==
    /\ sent' = [via |-> via, endpoint |-> endpoint, params |-> params,
                request |-> IF via = "get" THEN get(endpoint, params)
                            ELSE post(endpoint, params)]
    /\ UNCHANGED <<iteration, vcall, parsed>>

NextDispatch ==
    \E via \in Methods, params \in Dicts : Dispatch(via, "/search", params)

SpecDispatch == Init /\ [][NextDispatch]_vars

----------------------------------------------------------------------------
(* The parser on its own: Response built from every body.                  *)

Parse(body) ==
    /\ parsed' = [body |-> body, data |-> Response(body).data,
                  info |-> Response(body).info]
    /\ UNCHANGED <<iteration, vcall, sent>>

NextParse == \E body \in Bodies : Parse(body)

SpecParse == Init /\ [][NextParse]_vars

----------------------------------------------------------------------------
(* Properties.                                                             *)

\* The server of the query being iterated paginates: it reports the size of
\* the data set as the total and serves the page each request asks for.
Paginating == srv \in {"offset", "cursor"}

\* The records of a data set of m records, in order.
Dataset(m) == Slice(m, 0, m)

\* The last next_record call signalled end-of-sequence.
EndOfSequence == outcome = Outcome("next", "StopIteration")

\* The last operation was a next_record call that fetched a continuation page.
Advanced == outcome.op = "next" /\ wire.kind = "cont"

\* C1: when the server reports total = N and every page it has served since
\* the engine was invoked held at least one record, a next_record call that
\* signals end-of-sequence has been preceded by exactly N yielded records
\* and leaves current = total.
C1_TotalConsistency ==
    (bound /\ Paginating /\ ~emptySeen /\ EndOfSequence)
        => (Len(yielded) = n /\ current = total /\ total = n)

\* C1 happens: a cursor-based iteration over several pages has reached
\* end-of-sequence after all N records.
C1_Witness ==
    /\ bound /\ srv = "cursor" /\ ~emptySeen /\ EndOfSequence
    /\ n = MaxTotal /\ Len(firstPage) < n /\ Len(yielded) = n

\* C2: once the engine has been invoked, 0 <= current <= total, and the
\* records yielded since the last restart are current many, never more than
\* total.
C2_CurrentWithinTotal ==
    bound => (0 <= current /\ current <= total /\ Len(yielded) = current)

\* C2 happens: iteration stopped at total while the buffer still held
\* records of a page longer than what remained.
C2_Witness ==
    /\ bound /\ current = total /\ current > 0 /\ data # <<>> /\ EndOfSequence

\* C3: against a paginating server, whatever the lengths of the (non-empty)
\* pages it chose, the records yielded when end-of-sequence is signalled
\* are the data set, in order, each once.
C3_PaginationEquivalence ==
    (bound /\ Paginating /\ ~emptySeen /\ EndOfSequence) => yielded = Dataset(n)

\* C4: when the first continuation request of an iteration comes back with
\* no record, that next_record call signals end-of-sequence (it raises
\* nothing else) and the records yielded are exactly the first page's, fewer
\* than the total.
C4_EmptyPageTerminates ==
    (Advanced /\ wire.status = "ok" /\ wire.empty /\ Len(yielded) <= Len(firstPage))
        => (EndOfSequence /\ yielded = firstPage /\ Len(firstPage) < total)

\* C4 happens: a first page with records, then an empty second page.
C4_Witness ==
    /\ Advanced /\ wire.status = "ok" /\ wire.empty
    /\ firstPage # <<>> /\ yielded = firstPage /\ EndOfSequence

\* C5: a next_record call that fetches a continuation page sends "from" 0
\* and the stored token when a cursor is stored, and "from" current only
\* when none is; a cursor-only server never refuses a continuation request.
C5_CursorPrecedence ==
    [][(outcome'.op = "next" /\ wire'.kind = "cont")
          => /\ IF Truthy(search_after_last)
                THEN kwargs'["from"] = VInt(0) /\ kwargs'["next"] = search_after_last
                ELSE kwargs'["from"] = VInt(current)
             /\ srv = "cursor" => wire'.status # "rejected"]_vars

\* C5 happens: a cursor-only server has been iterated to the end over
\* several pages, the last request carrying "from" 0 and a token.
C5_Witness ==
    /\ bound /\ srv = "cursor" /\ EndOfSequence /\ n = MaxTotal
    /\ Len(firstPage) < n /\ yielded = Dataset(n)
    /\ kwargs["from"] = VInt(0) /\ kwargs["next"].k = "tok"

\* C6: after an invoke current is 0 and, when the first page carried no
\* cursor, the engine stores no cursor.
C6_RestartDiscardsCursor ==
    outcome = Outcome("invoke", "ok")
        => (current = 0 /\ (wire.next = Absent => search_after_last = NoneV))

\* The engine has advanced past its first page: a continuation page has
\* yielded a record.
PastFirstPage == bound /\ Len(yielded) > Len(firstPage)

\* C7: the first-page request that filter() sends from an engine that has
\* advanced past its first page carries no continuation token and no offset
\* other than 0 (the parameters sent are the ones self._kwargs keeps).
C7_FilterRestartsClean ==
    [][(PastFirstPage /\ outcome'.op = "filter" /\ wire'.kind = "first")
          => /\ kwargs'["next"] = Absent
             /\ kwargs'["from"] \in {Absent, VInt(0)}]_vars

\* C8: a filter() call that raises ValidationError leaves active_params,
\* current, the buffer, total and the cursor as they were.
C8_ValidationFailFast ==
    [][(outcome'.op = "filter" /\ outcome'.res = "ValidationError")
          => UNCHANGED <<kwargs, current, data, total, search_after_last>>]_vars

\* validate_parameter has been called for a parameter the schema does not
\* declare for an endpoint and method it knows.
UndeclaredCall ==
    /\ vcall.res # ""
    /\ HasEndpoint(vcall.endpoint, vcall.method)
    /\ vcall.name \notin DeclaredParams(vcall.endpoint, vcall.method)

Compatible(type, kind) ==
    \/ type = "string" /\ kind = "str"
    \/ type = "boolean" /\ kind = "bool"
    \/ type = "number" /\ kind \in {"int", "float"}

\* C10: for a declared parameter, validation passes exactly when the
\* declared type and the kind of the value are compatible, and fails with
\* ValidationError otherwise.
C10_TypeTable ==
    (/\ vcall.res # ""
     /\ HasEndpoint(vcall.endpoint, vcall.method)
     /\ vcall.name \in DeclaredParams(vcall.endpoint, vcall.method))
        => vcall.res =
             IF Compatible(DeclaredType(vcall.endpoint, vcall.method, vcall.name),
                           vcall.value.k)
             THEN "ok" ELSE "ValidationError"

\* The parameters a request carries, in the query string or in the body.
Carried(request) == Items(request.params) \cup Items(request.json)

\* Some value of the dict is a list or tuple of more than 3 elements.
LongValue(params) ==
    \E i \in DOMAIN params :
        params[i].value.k \in {"list", "tuple"} /\ params[i].value.v > 3

\* C11: a get() call goes out as POST exactly when some parameter value is
\* a list or tuple of more than 3 elements, as GET otherwise, and either
\* way the request carries the parameters of the call and no others.
C11_AutoUpgrade ==
    sent.via = "get"
        => /\ sent.request.method = (IF LongValue(sent.params) THEN "POST" ELSE "GET")
           /\ Carried(sent.request) = Items(sent.params)

\* C11 happens: a get() with one list of 3 and one of 4 elements went out
\* as POST with both parameters in it.
C11_Witness ==
    /\ sent.via = "get" /\ sent.request.method = "POST"
    /\ \E i, j \in DOMAIN sent.params :
          sent.params[i].value = VList(3) /\ sent.params[j].value = VList(4)
    /\ Carried(sent.request) = Items(sent.params)

\* C12: two calls in a row through the same method, to the same endpoint,
\* with the same parameters in whatever insertion order hand session.request
\* the same request.
C12_OrderIndependence ==
    [][(/\ sent.via # "" /\ sent'.via = sent.via
        /\ sent'.endpoint = sent.endpoint
        /\ Items(sent'.params) = Items(sent.params))
          => sent'.request = sent.request]_vars

\* A structured body with a data key has been parsed.
ParsedWithData == parsed.body.shape = "object" /\ parsed.body.data # JAbsent

\* A structured body without a data key has been parsed.
ParsedWithoutData == parsed.body.shape = "object" /\ parsed.body.data = JAbsent

\* C13: from a structured body with a data key the records are a list, the
\* data itself when it is a list and a list of the one object when it is a
\* single object, and the metadata is the other top-level fields with from
\* and next renamed from_ and next_.
C13_RecordsAreSequence ==
    ParsedWithData
        => /\ parsed.data.k = "list"
           /\ parsed.body.data.k = "list" => parsed.data = parsed.body.data
           /\ parsed.body.data.k = "object" => parsed.data = JList(parsed.body.data.v)
           /\ parsed.info = Renamed(parsed.body.meta)

\* C14: from a structured body without a data key the records are the one
\* object and the metadata is empty: no total, next_ or size in it.
C14_NoMetadataWithoutData ==
    ParsedWithoutData
        => /\ parsed.data = JList(<<WholeObject>>)
           /\ parsed.info = NoInfo

C16_UnsupportedMethod ==
    [][method \notin {"get", "post"}
          => /\ wire'.kind = "none"
             /\ outcome'.op = "invoke" => outcome'.res = "UnsupportedMethod"
             /\ (outcome'.op = "next" /\ data = <<>> /\ current < total)
                    => outcome'.res = "UnsupportedMethod"]_vars

\* C16 happens: an engine that had yielded the records of its first page
\* was given another method and asked for the next record.
C16_Witness ==
    /\ method = "put" /\ outcome = Outcome("next", "UnsupportedMethod")
    /\ wire.kind = "none" /\ yielded # <<>> /\ yielded = firstPage

\* C17: a continuation request is sent only by a next_record call that
\* finds the buffer empty and current < total; a next_record call that
\* finds records in the buffer, or current = total, sends nothing.
C17_RefillOnlyWhenNeeded ==
    [][/\ wire'.kind = "cont"
            => (outcome'.op = "next" /\ data = <<>> /\ current < total)
       /\ (outcome'.op = "next" /\ (data # <<>> \/ current >= total))
            => wire'.kind = "none"]_vars

\* C17 happens, as in the example: a first page of 2 records with a cursor
\* and a larger total, then the one continuation request, sent with that
\* cursor when the third record was asked for, brought the rest.
C17_Witness ==
    /\ srv = "cursor" /\ n = 3 /\ firstPage = <<1, 2>> /\ ~emptySeen
    /\ outcome = Outcome("next", "record") /\ wire.kind = "cont"
    /\ kwargs["from"] = VInt(0) /\ kwargs["next"] = VTok(2)
    /\ yielded = <<1, 2, 3>> /\ current = total

\* C18: a next_record call that follows one that signalled end-of-sequence
\* signals end-of-sequence too and sends no request.
C18_EndIsTerminal ==
    [][(EndOfSequence /\ outcome'.op = "next")
          => (outcome'.res = "StopIteration" /\ wire'.kind = "none")]_vars

C20_IndexBySequentialConsumption ==
    [][/\ (~index.on /\ index'.on)
            => (index'.from = current /\ UNCHANGED <<current, data, yielded>>)
       /\ index.on
            => /\ outcome'.op = "next"
               /\ index'.on => (index' = index /\ outcome'.res = "record"
                                 /\ current' < index.from + index.k + 1)
               /\ (~index'.on /\ outcome'.res = "record")
                     => /\ index.from + index.k < total
                        /\ current' = index.from + index.k + 1
                        /\ Len(yielded') = current'
               /\ (~index'.on /\ outcome'.res # "record")
                     => (yielded' = yielded /\ current' = current)]_vars

\* C20 happens: on a freshly invoked engine the last position was asked
\* for, and the records before it have been consumed page after page.
C20_Witness ==
    /\ index.on /\ index.from = 0 /\ index.k = MaxTotal - 1
    /\ srv = "offset" /\ n = MaxTotal /\ Len(firstPage) = 1
    /\ current = index.k /\ yielded = Dataset(current)

\* C21: for every shape of envelope the parser produces (a list under
\* data, a single object, an object under data, a string, text that is not
\* JSON), a next_record call that follows the invoke ends with a record or
\* with end-of-sequence, never with an error raised by taking a record out
\* of the buffer.
C21_ShapesTolerated ==
    (srv = "plain" /\ outcome.op = "next")
        => outcome.res \in {"record", "StopIteration", "TransportError",
                            "UnsupportedMethod"}

\* C22: in an iteration whose own pages have given the cursor, a
\* continuation request that carries a cursor carries the one that came
\* with the page taken into the buffer last; after a page that carried no
\* cursor, no token of an earlier page is sent again.
C22_CursorOfLatestPage ==
    [][(/\ outcome'.op = "next" /\ wire'.kind = "cont"
        /\ ownCursor
        /\ kwargs'["next"] # Absent)
          => kwargs'["next"] = pageNext]_vars

====
